---- MODULE Spec2Model ----
(***************************************************************************)
(* ICLED driver (Core/Src/icled.c): pixel store, PWM timing buffer and the *)
(* DMA transfer that streams the timing buffer to the LED matrix.          *)
(*                                                                         *)
(* ICLED_Show is modelled at the grain of its loops: one step per loop     *)
(* test, with the loop body taken when the test succeeds.  The DMA engine  *)
(* is a separate process that reads pwm_buffer while a transfer runs.      *)
(***************************************************************************)
EXTENDS Integers, Sequences, FiniteSets, TLC

\* ---------------------------------------------------------------- icled.h
\* The matrix of the board has 105 LEDs and the latch gap is 200 slots
\* (ICLED_LED_COUNT 105, ICLED_RESET_SLOTS 200).  The driver is written
\* against the two names only, and the model keeps it so: both are bounds
\* of the model, scaled down so that every slot of a frame is a step.
ICLED_LED_COUNT == 3

ICLED_RESET_SLOTS == 2

ICLED_BITS_PER_LED == 24

ICLED_TIMING_BITS == ICLED_LED_COUNT * ICLED_BITS_PER_LED

ICLED_BUFFER_SIZE == ICLED_TIMING_BITS + ICLED_RESET_SLOTS

ICLED_PWM_0 == 13

ICLED_PWM_1 == 26

\* ------------------------------------------------------- example_app.c
\* typedef enum { EFFECT_SIMPLE, EFFECT_GLOW, EFFECT_STARFIELD, EFFECT_SNAKE,
\*                EFFECT_COUNT } ICLED_EffectMode;
EFFECT_SIMPLE == 0

EFFECT_GLOW == 1

EFFECT_STARFIELD == 2

EFFECT_SNAKE == 3

EFFECT_COUNT == 4

\* #define DIR_HORIZONTAL 0 ... #define DIR_MODE_COUNT 4
DIR_HORIZONTAL == 0

DIR_VERTICAL == 1

DIR_DIAGONAL_RD == 2

DIR_DIAGONAL_LU == 3

DIR_MODE_COUNT == 4

\* ICLED_SnakePattern: const uint8_t rows = 7; const uint8_t cols = 15;
\* const uint16_t total = rows * cols;
SnakeRows == 7

SnakeCols == 15

SnakeTotal == SnakeRows * SnakeCols

\* #define MAX_STARS 10 in the source: the size of the static star array.
\* The starfield is written against the name only; it is a bound of the
\* model.
MAX_STARS == 1

\* Number of iterations of the main loop (calls of example_app_run) a run
\* of the whole application takes.
MaxFrames == 3

\* The user button S2 of the board is wired to GPIO_PIN_5.
S2_Pin == 32

\* Number of S2 interrupts a run takes.
MaxPresses == 6

\* Number of consecutive calls of ICLED_SnakePattern a run takes: through
\* the wrap of the 16-bit tick counter at call 65536 and one period of the
\* direction mode (160 calls) beyond it.
MaxSnakeCalls == 65696

\* ------------------------------------------------------------ input sets
\* Arguments the callers pass to ICLED_SetPixel: <<index, r, g, b>> with a
\* 16-bit index and 8-bit channels.  The indices are the first and the last
\* pixel of the store, the first invalid index and the largest uint16_t;
\* the colours differ per channel and are not bit palindromes.
SetPixelIndices == { 0, ICLED_LED_COUNT - 1, ICLED_LED_COUNT, 65535 }

SetPixelColours == { <<1, 128, 86>>, <<255, 0, 3>> }

SetPixelInputs ==
    { <<ix, col[1], col[2], col[3]>> : ix \in SetPixelIndices, col \in SetPixelColours }

\* Slots of pwm_buffer the DMA engine is observed reading: the first data
\* slot, the last data slot and the last reset slot.
DmaProbe == { 0, ICLED_TIMING_BITS - 1, ICLED_BUFFER_SIZE - 1 }

\* GPIO_Pin arguments of HAL_GPIO_EXTI_Callback: the S2 line and another
\* EXTI line.
ExtiPins == { S2_Pin, 8192 }

NoPin == 0

\* Values rand() returns: one that spawns a star (0 % 100 < 15) and two
\* that do not; between them they give two pixel indices, the star ages 4
\* and 6 and both star colours.
RandValues == { 0, 15, 32767 }

\* Brightness arguments of the two Knight Rider effects: the one
\* example_app_run passes and full brightness in percent.
KnightBrightness == { 40, 100 }

\* Brightness arguments of ICLED_SnakePattern: the one example_app_run
\* passes and the largest uint8_t.
SnakeBrightness == { 40, 255 }

\* effectMode has not been read by example_app_run yet.
NoSel == -1

NoArgs == <<>>

NoEmit == <<>>

NoSnapshot == <<>>

VARIABLES
    led_data,     \* static uint8_t led_data[ICLED_LED_COUNT][3]
    pwm_buffer,   \* static uint16_t pwm_buffer[ICLED_BUFFER_SIZE]
    pc,           \* position of the main context
    op,           \* the driver call in progress (or the last one completed)
    args,         \* parameters of that call (ICLED_SetPixel only)
    clr_i,        \* ICLED_Clear: i
    i,            \* ICLED_Show: i of the pixel loop
    c,            \* ICLED_Show: c
    val,          \* ICLED_Show: val
    bit,          \* ICLED_Show: bit (int8_t)
    pos,          \* ICLED_Show: pos
    rst_i,        \* ICLED_Show: i of the reset loop
    running,      \* TIM1 CH1 DMA transfer state
    dma_len,      \* Length argument of the last HAL_TIM_PWM_Start_DMA
    halLog,       \* HAL calls issued by the driver call in progress
    lastHal,      \* the last HAL call issued on the channel
    frame,        \* pwm_buffer as it was when the transfer was last started
    shown,        \* led_data as it was when ICLED_Show was last entered
    noop_led,     \* led_data as an out-of-range ICLED_SetPixel found it
    emit,         \* last slot read by the DMA engine: <<slot, value>>
    again,        \* the call in progress is an ICLED_Show that directly
                  \* follows a call that ended with a show
    effectMode,   \* volatile ICLED_EffectMode effectMode
    isr_pc,       \* position of the interrupt context
    exti_pin,     \* HAL_GPIO_EXTI_Callback: GPIO_Pin of the invocation in progress
    presses,      \* number of invocations with S2_Pin so far
    app_pc,       \* position of the main context in the application
    sel,          \* example_app_run: the value switch (effectMode) read
    frames,       \* number of calls the main loop has made so far
    fx_brightness,\* parameter brightness of the effect in progress
    px_idx,       \* indices the effect call in progress passed to ICLED_SetPixel
    night_col,    \* ICLED_NightRideDemo: static int8_t col
    night_dir,    \* ICLED_NightRideDemo: static int8_t direction
    glow_col,     \* ICLED_KnightRiderColorFade: static int8_t col
    glow_dir,     \* ICLED_KnightRiderColorFade: static int8_t direction
    star_init,    \* ICLED_StarfieldEffect: static uint8_t init
    stars,        \* ICLED_StarfieldEffect: static Star stars[MAX_STARS]
    star_i,       \* ICLED_StarfieldEffect: i of the spawn loop
    snake_tick,   \* ICLED_SnakePattern: static uint16_t tick
    snake_head,   \* ICLED_SnakePattern: static uint16_t headIndex
    snake_len,    \* ICLED_SnakePattern: static uint8_t snakeLength
    snake_growing,\* ICLED_SnakePattern: static uint8_t growing
    snake_mode    \* ICLED_SnakePattern: static uint8_t mode

irqVars == << effectMode, isr_pc, exti_pin, presses >>

fxVars == << app_pc, sel, frames, fx_brightness, px_idx, night_col, night_dir,
             glow_col, glow_dir, star_init, stars, star_i,
             snake_tick, snake_head, snake_len, snake_growing, snake_mode >>

appVars == << irqVars, fxVars >>

vars == << led_data, pwm_buffer, pc, op, args, clr_i, i, c, val, bit, pos, rst_i,
           running, dma_len, halLog, lastHal, frame, shown, noop_led, emit, again,
           appVars >>

locals == << clr_i, i, c, val, bit, pos, rst_i >>

\* ------------------------------------------------------------ pure parts

RECURSIVE Pow2(_)
Pow2(n) == IF n = 0 THEN 1 ELSE 2 * Pow2(n - 1)

\* Mutant of BitSet: the mask is one bit too far to the left.
BitSet_MaskShifted(v, b) == (v \div Pow2(b + 1)) % 2 = 1

\* (val & (1 << bit)) != 0
BitSet(v, b) == (v \div Pow2(b)) % 2 = 1

\* Mutant of SlotValue: the bits of a byte go out least significant first.
SlotValue_LsbFirst(v, b) == IF BitSet(v, 7 - b) THEN ICLED_PWM_1 ELSE ICLED_PWM_0

\* Mutant of SlotValue: a zero bit is written as an idle slot.
SlotValue_ZeroIdle(v, b) == IF BitSet(v, b) THEN ICLED_PWM_1 ELSE 0

\* (val & (1 << bit)) ? ICLED_PWM_1 : ICLED_PWM_0
SlotValue(v, b) == IF BitSet(v, b) THEN ICLED_PWM_1 ELSE ICLED_PWM_0

\* Mutant of StoreGRB: the channels are stored in the order of the parameters.
StoreGRB_AsRGB(r, g, b) == [ch \in 0..2 |-> CASE ch = 0 -> r [] ch = 1 -> g [] ch = 2 -> b]

\* led_data[index][0] = g; [1] = r; [2] = b
StoreGRB(r, g, b) == [ch \in 0..2 |-> CASE ch = 0 -> g [] ch = 1 -> r [] ch = 2 -> b]

\* if (index >= ICLED_LED_COUNT) return;
InRange(index) == index < ICLED_LED_COUNT

\* Mutant of SetPixel: an index past the end is clamped to the last pixel
\* instead of being ignored.
SetPixel_Clamped(store, index, r, g, b) ==
    [store EXCEPT ![IF index < ICLED_LED_COUNT THEN index ELSE ICLED_LED_COUNT - 1] =
        [ch \in 0..2 |-> CASE ch = 0 -> g [] ch = 1 -> r [] ch = 2 -> b]]

\* The body of ICLED_SetPixel applied to a pixel store.
SetPixel(store, index, r, g, b) ==
    IF InRange(index) THEN [store EXCEPT ![index] = StoreGRB(r, g, b)] ELSE store

\* Mutant of LedLoopTest: the loop stops one pixel early.
LedLoopTest_SkipsLast(k) == k < ICLED_LED_COUNT - 1

\* i < ICLED_LED_COUNT (pixel loop of ICLED_Show, loop of ICLED_Clear)
LedLoopTest(k) == k < ICLED_LED_COUNT

\* c < 3
ChannelLoopTest(k) == k < 3

\* Mutant of BitLoopTest: the loop stops before bit 0.
BitLoopTest_StopsAtOne(k) == k > 0

\* bit >= 0
BitLoopTest(k) == k >= 0

\* Mutant of ResetLoopTest: the reset loop runs once too often.
ResetLoopTest_OffByOne(k) == k <= ICLED_RESET_SLOTS

\* i < ICLED_RESET_SLOTS
ResetLoopTest(k) == k < ICLED_RESET_SLOTS

\* Mutant of WriteSlot: the value is added to what the slot holds (uint16_t).
WriteSlot_Adds(buf, p, v) ==
    IF p \in DOMAIN buf THEN [buf EXCEPT ![p] = (buf[p] + v) % 65536] ELSE buf

\* pwm_buffer[pos++] = v (a store past the end of the array is dropped here;
\* the write position is what records it).
WriteSlot(buf, p, v) == IF p \in DOMAIN buf THEN [buf EXCEPT ![p] = v] ELSE buf

\* ------------------------------------------------------------------ Init
Init ==
    /\ led_data = [p \in 0..(ICLED_LED_COUNT - 1) |-> [ch \in 0..2 |-> 0]]
    /\ pwm_buffer = [s \in 0..(ICLED_BUFFER_SIZE - 1) |-> 0]
    /\ pc = "boot"
    /\ op = "none"
    /\ args = NoArgs
    /\ clr_i = 0 /\ i = 0 /\ c = 0 /\ val = 0 /\ bit = 0 /\ pos = 0 /\ rst_i = 0
    /\ running = FALSE
    /\ dma_len = 0
    /\ halLog = <<>>
    /\ lastHal = "none"
    /\ frame = pwm_buffer
    /\ shown = led_data
    /\ noop_led = NoSnapshot
    /\ emit = NoEmit
    /\ again = FALSE
    /\ effectMode = EFFECT_SIMPLE
    /\ isr_pc = "none"
    /\ exti_pin = NoPin
    /\ presses = 0
    /\ app_pc = "loop"
    /\ sel = NoSel
    /\ frames = 0
    /\ fx_brightness = 0
    /\ px_idx = {}
    /\ night_col = 0 /\ night_dir = 1
    /\ glow_col = 0 /\ glow_dir = 1
    /\ star_init = 0
    /\ stars = [k \in 0..(MAX_STARS - 1) |-> [index |-> 0, age |-> 0, color |-> 0]]
    /\ star_i = 0
    /\ snake_tick = 0
    /\ snake_head = 0
    /\ snake_len = 8
    /\ snake_growing = 1
    /\ snake_mode = DIR_HORIZONTAL

\* --------------------------------------------------------------- actions

\* ICLED_Init: entry; the first statement is the call of ICLED_Clear.
ICLED_Init ==
    /\ pc = "boot"
    /\ op' = "Init"
    /\ args' = NoArgs
    /\ halLog' = <<>>
    /\ clr_i' = 0
    /\ pc' = "clear_loop"
    /\ UNCHANGED << led_data, pwm_buffer, i, c, val, bit, pos, rst_i,
                    running, dma_len, lastHal, frame, shown, noop_led, emit >>
    /\ again' = FALSE
    /\ UNCHANGED appVars

\* Mutant of ICLED_SetPixel: the call also re-encodes the first slot of the
\* pixel it writes.
ICLED_SetPixel_Eager ==
    /\ pc = "idle"
    /\ \E a \in SetPixelInputs :
          /\ args' = a
          /\ led_data' = SetPixel(led_data, a[1], a[2], a[3], a[4])
          /\ noop_led' = IF InRange(a[1]) THEN NoSnapshot ELSE led_data
          /\ pwm_buffer' = IF InRange(a[1])
                           THEN WriteSlot(pwm_buffer, a[1] * ICLED_BITS_PER_LED,
                                          SlotValue(a[3], 7))
                           ELSE pwm_buffer
    /\ op' = "SetPixel"
    /\ halLog' = <<>>
    /\ UNCHANGED << pc, locals, running, dma_len, lastHal, frame, shown, emit >>
    /\ again' = FALSE
    /\ UNCHANGED appVars

\* ICLED_SetPixel called by the application.
ICLED_SetPixel ==
    /\ pc = "idle"
    /\ \E a \in SetPixelInputs :
          /\ args' = a
          /\ led_data' = SetPixel(led_data, a[1], a[2], a[3], a[4])
          /\ noop_led' = IF InRange(a[1]) THEN NoSnapshot ELSE led_data
    /\ op' = "SetPixel"
    /\ halLog' = <<>>
    /\ UNCHANGED << pwm_buffer, pc, locals, running, dma_len, lastHal,
                    frame, shown, emit >>
    /\ again' = FALSE
    /\ UNCHANGED appVars

\* ICLED_Clear called by the application: entry.
ICLED_Clear ==
    /\ pc = "idle"
    /\ op' = "Clear"
    /\ args' = NoArgs
    /\ halLog' = <<>>
    /\ noop_led' = NoSnapshot
    /\ clr_i' = 0
    /\ pc' = "clear_loop"
    /\ UNCHANGED << led_data, pwm_buffer, i, c, val, bit, pos, rst_i,
                    running, dma_len, lastHal, frame, shown, emit >>
    /\ again' = FALSE
    /\ UNCHANGED appVars

\* ICLED_Clear: for (i = 0; i < ICLED_LED_COUNT; i++) ICLED_SetPixel(i,0,0,0);
\* then the call of ICLED_Show (pos = 0 and the pixel loop's i = 0).
Clear_Loop ==
    /\ pc = "clear_loop"
    /\ IF LedLoopTest(clr_i)
       THEN /\ led_data' = SetPixel(led_data, clr_i, 0, 0, 0)
            /\ clr_i' = clr_i + 1
            /\ UNCHANGED << pc, i, pos, shown >>
       ELSE /\ pc' = "show_led"
            /\ pos' = 0
            /\ i' = 0
            /\ shown' = led_data
            /\ UNCHANGED << led_data, clr_i >>
    /\ UNCHANGED << pwm_buffer, op, args, c, val, bit, rst_i,
                    running, dma_len, halLog, lastHal, frame, noop_led, emit >>
    /\ UNCHANGED again
    /\ UNCHANGED appVars

\* ICLED_Show called by the application: entry (pos = 0, i = 0).
ICLED_Show ==
    /\ pc = "idle"
    /\ op' = "Show"
    /\ args' = NoArgs
    /\ halLog' = <<>>
    /\ pos' = 0
    /\ i' = 0
    /\ shown' = led_data
    /\ pc' = "show_led"
    /\ UNCHANGED << led_data, pwm_buffer, clr_i, c, val, bit, rst_i,
                    running, dma_len, lastHal, frame, noop_led, emit >>
    /\ again' = (op \in { "Show", "Clear", "Init" })
    /\ UNCHANGED appVars

\* for (uint16_t i = 0; i < ICLED_LED_COUNT; i++) { c = 0 ... }
\* and, when it ends, the start of the reset loop (i = 0).
Show_LoopLed ==
    /\ pc = "show_led"
    /\ IF LedLoopTest(i)
       THEN /\ c' = 0
            /\ pc' = "show_channel"
            /\ UNCHANGED rst_i
       ELSE /\ rst_i' = 0
            /\ pc' = "show_reset"
            /\ UNCHANGED c
    /\ UNCHANGED << led_data, pwm_buffer, op, args, clr_i, i, val, bit, pos,
                    running, dma_len, halLog, lastHal, frame, shown, noop_led, emit >>
    /\ UNCHANGED again
    /\ UNCHANGED appVars

\* for (uint8_t c = 0; c < 3; c++) { val = led_data[i][c]; bit = 7 ... }
Show_LoopChannel ==
    /\ pc = "show_channel"
    /\ IF ChannelLoopTest(c)
       THEN /\ val' = led_data[i][c]
            /\ bit' = 7
            /\ pc' = "show_bit"
            /\ UNCHANGED i
       ELSE /\ i' = i + 1
            /\ pc' = "show_led"
            /\ UNCHANGED << val, bit >>
    /\ UNCHANGED << led_data, pwm_buffer, op, args, clr_i, c, pos, rst_i,
                    running, dma_len, halLog, lastHal, frame, shown, noop_led, emit >>
    /\ UNCHANGED again
    /\ UNCHANGED appVars

\* for (int8_t bit = 7; bit >= 0; bit--) pwm_buffer[pos++] = ...
Show_LoopBit ==
    /\ pc = "show_bit"
    /\ IF BitLoopTest(bit)
       THEN /\ pwm_buffer' = WriteSlot(pwm_buffer, pos, SlotValue(val, bit))
            /\ pos' = pos + 1
            /\ bit' = bit - 1
            /\ UNCHANGED << c, pc >>
       ELSE /\ c' = c + 1
            /\ pc' = "show_channel"
            /\ UNCHANGED << pwm_buffer, pos, bit >>
    /\ UNCHANGED << led_data, op, args, clr_i, i, val, rst_i,
                    running, dma_len, halLog, lastHal, frame, shown, noop_led, emit >>
    /\ UNCHANGED again
    /\ UNCHANGED appVars

\* Mutant of Show_LoopReset: the latch gap is filled with zero bits.
Show_LoopReset_WritesZeroBit ==
    /\ pc = "show_reset"
    /\ IF ResetLoopTest(rst_i)
       THEN /\ pwm_buffer' = WriteSlot(pwm_buffer, pos, ICLED_PWM_0)
            /\ pos' = pos + 1
            /\ rst_i' = rst_i + 1
            /\ UNCHANGED pc
       ELSE /\ pc' = "show_stop"
            /\ UNCHANGED << pwm_buffer, pos, rst_i >>
    /\ UNCHANGED << led_data, op, args, clr_i, i, c, val, bit,
                    running, dma_len, halLog, lastHal, frame, shown, noop_led, emit >>
    /\ UNCHANGED again
    /\ UNCHANGED appVars

\* for (uint32_t i = 0; i < ICLED_RESET_SLOTS; i++) pwm_buffer[pos++] = 0;
Show_LoopReset ==
    /\ pc = "show_reset"
    /\ IF ResetLoopTest(rst_i)
       THEN /\ pwm_buffer' = WriteSlot(pwm_buffer, pos, 0)
            /\ pos' = pos + 1
            /\ rst_i' = rst_i + 1
            /\ UNCHANGED pc
       ELSE /\ pc' = "show_stop"
            /\ UNCHANGED << pwm_buffer, pos, rst_i >>
    /\ UNCHANGED << led_data, op, args, clr_i, i, c, val, bit,
                    running, dma_len, halLog, lastHal, frame, shown, noop_led, emit >>
    /\ UNCHANGED again
    /\ UNCHANGED appVars

\* Mutant of Show_Stop: ICLED_Show goes on to the start without stopping.
Show_Stop_Omitted ==
    /\ pc = "show_stop"
    /\ pc' = "show_start"
    /\ UNCHANGED << led_data, pwm_buffer, op, args, locals, running, dma_len,
                    halLog, lastHal, frame, shown, noop_led, emit >>
    /\ UNCHANGED again
    /\ UNCHANGED appVars

\* HAL_TIM_PWM_Stop_DMA(&htim1, TIM_CHANNEL_1): the transfer, if any, ends
\* and with it the stream of slots it was emitting.
Show_Stop ==
    /\ pc = "show_stop"
    /\ running' = FALSE
    /\ emit' = NoEmit
    /\ halLog' = Append(halLog, "stop")
    /\ lastHal' = "stop"
    /\ pc' = "show_start"
    /\ UNCHANGED << led_data, pwm_buffer, op, args, locals,
                    dma_len, frame, shown, noop_led >>
    /\ UNCHANGED again
    /\ UNCHANGED appVars

\* Mutant of Show_Start: the transfer is started over the data slots only.
Show_Start_DataOnly ==
    /\ pc = "show_start"
    /\ running' = TRUE
    /\ dma_len' = ICLED_TIMING_BITS
    /\ frame' = pwm_buffer
    /\ halLog' = Append(halLog, "start")
    /\ lastHal' = "start"
    /\ pc' = IF op = "Init" THEN "init_start" ELSE "idle"
    /\ clr_i' = 0
    /\ UNCHANGED << led_data, pwm_buffer, op, args, i, c, val, bit, pos, rst_i,
                    shown, noop_led, emit >>
    /\ UNCHANGED again
    /\ UNCHANGED appVars

\* HAL_TIM_PWM_Start_DMA(&htim1, TIM_CHANNEL_1, pwm_buffer, ICLED_BUFFER_SIZE)
\* and the return of ICLED_Show: to ICLED_Init when ICLED_Init called
\* ICLED_Clear, to the application otherwise (the frames of ICLED_Show and
\* ICLED_Clear are gone then).
Show_Start ==
    /\ pc = "show_start"
    /\ running' = TRUE
    /\ dma_len' = ICLED_BUFFER_SIZE
    /\ frame' = pwm_buffer
    /\ halLog' = Append(halLog, "start")
    /\ lastHal' = "start"
    /\ pc' = IF op = "Init" THEN "init_start" ELSE "idle"
    /\ clr_i' = 0
    /\ UNCHANGED << led_data, pwm_buffer, op, args, i, c, val, bit, pos, rst_i,
                    shown, noop_led, emit >>
    /\ UNCHANGED again
    /\ UNCHANGED appVars

\* ICLED_Init: HAL_TIM_PWM_Start_DMA(...) after ICLED_Clear has returned.
\* The transfer ICLED_Show started is still active: the driver does not
\* define the outcome of a start on an active channel, so the transfer may
\* keep running or be left halted.
Init_Start ==
    /\ pc = "init_start"
    /\ running' \in (IF running THEN BOOLEAN ELSE {TRUE})
    /\ dma_len' = ICLED_BUFFER_SIZE
    /\ frame' = pwm_buffer
    /\ halLog' = Append(halLog, "start")
    /\ lastHal' = "start"
    /\ pc' = "idle"
    /\ UNCHANGED << led_data, pwm_buffer, op, args, locals, shown, noop_led, emit >>
    /\ UNCHANGED again
    /\ UNCHANGED appVars

\* The DMA engine reads one slot of pwm_buffer, the memory it was started
\* on, and emits it; it runs beside the main context whenever a transfer is
\* active.
DmaEmit ==
    /\ running
    /\ \E s \in DmaProbe : emit' = << s, pwm_buffer[s] >>
    /\ UNCHANGED << led_data, pwm_buffer, pc, op, args, locals,
                    running, dma_len, halLog, lastHal, frame, shown, noop_led >>
    /\ UNCHANGED again
    /\ UNCHANGED appVars

\* The driver alone.
Next ==
    \/ ICLED_Init
    \/ ICLED_SetPixel
    \/ ICLED_Clear
    \/ Clear_Loop
    \/ ICLED_Show
    \/ Show_LoopLed
    \/ Show_LoopChannel
    \/ Show_LoopBit
    \/ Show_LoopReset
    \/ Show_Stop
    \/ Show_Start
    \/ Init_Start

Spec == Init /\ [][Next]_vars

\* A step of the main context inside a driver call.  The main context is
\* sequential code that no driver loop makes wait: once inside a call it
\* keeps taking steps.
DriverStep ==
    \/ Clear_Loop
    \/ Show_LoopLed
    \/ Show_LoopChannel
    \/ Show_LoopBit
    \/ Show_LoopReset
    \/ Show_Stop
    \/ Show_Start
    \/ Init_Start

SpecLive == Init /\ [][Next]_vars /\ WF_vars(DriverStep)

\* The driver and the DMA engine.
NextDma == Next \/ DmaEmit

SpecDma == Init /\ [][NextDma]_vars

\* ------------------------------------------------------- button interrupt
\* Mutant of MainCanRun: the main context runs while the handler is active.
MainCanRun_Preempting == TRUE

\* The interrupt preempts the main context and runs to completion: the main
\* context takes a step only while no handler is active.
MainCanRun == isr_pc = "none"

\* Mutant of HAL_GPIO_EXTI_Callback: the handler also blanks pixel 0.
HAL_GPIO_EXTI_Callback_Paints ==
    /\ isr_pc = "none"
    /\ \E pin \in ExtiPins :
        /\ pin = S2_Pin => presses < MaxPresses
        /\ exti_pin' = pin
        /\ IF pin = S2_Pin
           THEN /\ effectMode' = effectMode + 1
                /\ isr_pc' = "check"
                /\ presses' = presses + 1
           ELSE /\ isr_pc' = "return"
                /\ UNCHANGED << effectMode, presses >>
    /\ led_data' = SetPixel(led_data, 0, 9, 9, 9)
    /\ UNCHANGED << pwm_buffer, pc, op, args, locals, running, dma_len, halLog,
                    lastHal, frame, shown, noop_led, emit, again >>
    /\ UNCHANGED fxVars

\* void HAL_GPIO_EXTI_Callback(uint16_t GPIO_Pin), up to the increment:
\*     if (GPIO_Pin == S2_Pin) { effectMode++; ...
HAL_GPIO_EXTI_Callback ==
    /\ isr_pc = "none"
    /\ \E pin \in ExtiPins :
        /\ pin = S2_Pin => presses < MaxPresses
        /\ exti_pin' = pin
        /\ IF pin = S2_Pin
           THEN /\ effectMode' = effectMode + 1
                /\ isr_pc' = "check"
                /\ presses' = presses + 1
           ELSE /\ isr_pc' = "return"
                /\ UNCHANGED << effectMode, presses >>
    /\ UNCHANGED << led_data, pwm_buffer, pc, op, args, locals, running, dma_len,
                    halLog, lastHal, frame, shown, noop_led, emit, again >>
    /\ UNCHANGED fxVars

\* Mutant of EXTI_WrapCheck: the wrap-around test is effectMode > EFFECT_COUNT.
EXTI_WrapCheck_Late ==
    /\ isr_pc = "check"
    /\ effectMode' = IF effectMode > EFFECT_COUNT THEN 0 ELSE effectMode
    /\ isr_pc' = "none"
    /\ exti_pin' = NoPin
    /\ UNCHANGED presses
    /\ UNCHANGED << led_data, pwm_buffer, pc, op, args, locals, running, dma_len,
                    halLog, lastHal, frame, shown, noop_led, emit, again >>
    /\ UNCHANGED fxVars

\*     if (effectMode >= EFFECT_COUNT) { effectMode = 0; } }
EXTI_WrapCheck ==
    /\ isr_pc = "check"
    /\ effectMode' = IF effectMode >= EFFECT_COUNT THEN 0 ELSE effectMode
    /\ isr_pc' = "none"
    /\ exti_pin' = NoPin
    /\ UNCHANGED presses
    /\ UNCHANGED << led_data, pwm_buffer, pc, op, args, locals, running, dma_len,
                    halLog, lastHal, frame, shown, noop_led, emit, again >>
    /\ UNCHANGED fxVars

\* The return of the handler when GPIO_Pin is not S2_Pin.
EXTI_Return ==
    /\ isr_pc = "return"
    /\ isr_pc' = "none"
    /\ exti_pin' = NoPin
    /\ UNCHANGED << effectMode, presses >>
    /\ UNCHANGED << led_data, pwm_buffer, pc, op, args, locals, running, dma_len,
                    halLog, lastHal, frame, shown, noop_led, emit, again >>
    /\ UNCHANGED fxVars

\* The driver under its callers, with the button interrupt arriving between
\* any two steps of the main context.
NextIrq ==
    \/ MainCanRun /\ ICLED_Init
    \/ MainCanRun /\ ICLED_SetPixel
    \/ MainCanRun /\ ICLED_Clear
    \/ MainCanRun /\ Clear_Loop
    \/ MainCanRun /\ ICLED_Show
    \/ MainCanRun /\ Show_LoopLed
    \/ MainCanRun /\ Show_LoopChannel
    \/ MainCanRun /\ Show_LoopBit
    \/ MainCanRun /\ Show_LoopReset
    \/ MainCanRun /\ Show_Stop
    \/ MainCanRun /\ Show_Start
    \/ MainCanRun /\ Init_Start
    \/ HAL_GPIO_EXTI_Callback
    \/ EXTI_WrapCheck
    \/ EXTI_Return

SpecIrq == Init /\ [][NextIrq]_vars

\* ------------------------------------------------------- example_app.c
\* Everything of the driver's state.
drvVars == << led_data, pwm_buffer, pc, op, args, locals, running, dma_len,
              halLog, lastHal, frame, shown, noop_led, emit, again >>

\* Conversion to uint8_t, uint16_t and int16_t.
U8(x) == x % 256

U16(x) == x % 65536

I16(x) == IF x % 65536 >= 32768 THEN (x % 65536) - 65536 ELSE x % 65536

\* The pixel store after a sequence of ICLED_SetPixel calls <<index, r, g, b>>
\* made in the order of the sequence: a pixel holds what the last call with
\* its index stored, and a call with an index out of range stores nothing.
SetPixels(store, calls) ==
    [p \in DOMAIN store |->
        LET hits == { k \in 1..Len(calls) : InRange(calls[k][1]) /\ calls[k][1] = p }
            last == CHOOSE k \in hits : \A j \in hits : j <= k
        IN  IF hits = {} THEN store[p]
            ELSE SetPixel(store, p, calls[last][2], calls[last][3], calls[last][4])[p]]

\* An effect issues a sequence of ICLED_SetPixel calls.
PixelCalls(calls) ==
    /\ led_data' = SetPixels(led_data, calls)
    /\ px_idx' = px_idx \cup { calls[k][1] : k \in 1..Len(calls) }
    /\ IF calls = <<>>
       THEN UNCHANGED << op, args, noop_led, halLog, again >>
       ELSE /\ op' = "SetPixel"
            /\ args' = calls[Len(calls)]
            /\ noop_led' = IF InRange(calls[Len(calls)][1]) THEN NoSnapshot
                           ELSE SetPixels(led_data, SubSeq(calls, 1, Len(calls) - 1))
            /\ halLog' = <<>>
            /\ again' = FALSE
    /\ UNCHANGED << pwm_buffer, pc, locals, running, dma_len, lastHal, frame,
                    shown, emit >>

\* for (int8_t bit = 7; bit >= 0; bit--) pwm_buffer[pos++] = ... run to its end.
RECURSIVE RunBitLoop(_)
RunBitLoop(st) ==
    IF BitLoopTest(st.bit)
    THEN RunBitLoop([st EXCEPT !.buf = WriteSlot(st.buf, st.pos, SlotValue(st.val, st.bit)),
                               !.pos = st.pos + 1, !.bit = st.bit - 1])
    ELSE st

\* for (uint8_t c = 0; c < 3; c++) { val = led_data[i][c]; ... } run to its end.
RECURSIVE RunChannelLoop(_, _)
RunChannelLoop(store, st) ==
    IF ChannelLoopTest(st.c)
    THEN RunChannelLoop(store,
            [RunBitLoop([st EXCEPT !.val = store[st.i][st.c], !.bit = 7])
                EXCEPT !.c = st.c + 1])
    ELSE st

\* for (uint16_t i = 0; i < ICLED_LED_COUNT; i++) { ... } run to its end.
RECURSIVE RunLedLoop(_, _)
RunLedLoop(store, st) ==
    IF LedLoopTest(st.i)
    THEN RunLedLoop(store, [RunChannelLoop(store, [st EXCEPT !.c = 0]) EXCEPT !.i = st.i + 1])
    ELSE st

\* for (uint32_t i = 0; i < ICLED_RESET_SLOTS; i++) pwm_buffer[pos++] = 0;
\* run to its end.
RECURSIVE RunResetLoop(_)
RunResetLoop(st) ==
    IF ResetLoopTest(st.rst_i)
    THEN RunResetLoop([st EXCEPT !.buf = WriteSlot(st.buf, st.pos, 0),
                                 !.pos = st.pos + 1, !.rst_i = st.rst_i + 1])
    ELSE st

\* The loops of ICLED_Show run one after the other: the steps Show_LoopLed,
\* Show_LoopChannel, Show_LoopBit and Show_LoopReset up to the stop.
RunShow(store, st) == RunResetLoop([RunLedLoop(store, st) EXCEPT !.rst_i = 0])

\* The state of ICLED_Show at its entry: pos = 0, i = 0.
ShowEntry ==
    [buf |-> pwm_buffer, i |-> 0, c |-> c, val |-> val,
     bit |-> bit, pos |-> 0, rst_i |-> rst_i]

\* A whole call of ICLED_Show on the pixel store, from entry to return: the
\* loops, the stop and the start.
ShowCall(store, caller) ==
    \E st \in { RunShow(store, ShowEntry) } :
    /\ pwm_buffer' = st.buf
    /\ i' = st.i /\ c' = st.c /\ val' = st.val /\ bit' = st.bit
    /\ pos' = st.pos /\ rst_i' = st.rst_i
    /\ clr_i' = 0
    /\ shown' = store
    /\ running' = TRUE
    /\ emit' = NoEmit
    /\ dma_len' = ICLED_BUFFER_SIZE
    /\ frame' = st.buf
    /\ halLog' = << "stop", "start" >>
    /\ lastHal' = "start"
    /\ op' = caller
    /\ args' = NoArgs
    /\ again' = (caller = "Show" /\ op \in { "Show", "Clear", "Init" })
    /\ UNCHANGED pc

\* The pixel loop of ICLED_Clear run from pixel k on.
RECURSIVE RunClear(_, _)
RunClear(store, k) ==
    IF LedLoopTest(k) THEN RunClear(SetPixel(store, k, 0, 0, 0), k + 1) ELSE store

\* ShowCall and RunClear agree with the driver taken step by step: when
\* a show called by the application has returned, the driver is in the state
\* ShowCall leaves it in, and ICLED_Clear leaves the store RunClear computes.
ShowCallAgrees ==
    (pc = "idle" /\ op \in { "Show", "Clear" }) =>
        \E st \in { RunShow(shown, [buf |-> pwm_buffer, i |-> 0, c |-> 0, val |-> 0,
                                     bit |-> 0, pos |-> 0, rst_i |-> 0]) } :
            /\ pwm_buffer = st.buf /\ frame = st.buf
            /\ i = st.i /\ c = st.c /\ val = st.val /\ bit = st.bit
            /\ pos = st.pos /\ rst_i = st.rst_i /\ clr_i = 0
            /\ running /\ dma_len = ICLED_BUFFER_SIZE /\ emit = NoEmit
            /\ halLog = << "stop", "start" >> /\ lastHal = "start"
            /\ shown = led_data
            /\ op = "Clear" => led_data = RunClear(led_data, 0)

\* void example_app_run(void): switch (effectMode) and the call of the
\* effect selected; the default branch is ICLED_Clear(); HAL_Delay(100).
example_app_run ==
    /\ MainCanRun
    /\ pc = "idle"
    /\ app_pc = "loop"
    /\ frames < MaxFrames
    /\ frames' = frames + 1
    /\ sel' = effectMode
    /\ px_idx' = {}
    /\ CASE effectMode = EFFECT_SIMPLE ->
              /\ app_pc' = "night"
              /\ fx_brightness' = 40
              /\ UNCHANGED drvVars
         [] effectMode = EFFECT_GLOW ->
              /\ app_pc' = "glow"
              /\ fx_brightness' = 40
              /\ UNCHANGED drvVars
         [] effectMode = EFFECT_STARFIELD ->
              /\ app_pc' = "star"
              /\ fx_brightness' = 20
              /\ UNCHANGED drvVars
         [] effectMode = EFFECT_SNAKE ->
              /\ app_pc' = "snake"
              /\ fx_brightness' = 40
              /\ UNCHANGED drvVars
         [] OTHER ->
              /\ led_data' = RunClear(led_data, 0)
              /\ noop_led' = NoSnapshot
              /\ ShowCall(RunClear(led_data, 0), "Clear")
              /\ UNCHANGED << app_pc, fx_brightness >>
    /\ UNCHANGED << night_col, night_dir, glow_col, glow_dir, star_init, stars,
                    star_i, snake_tick, snake_head, snake_len, snake_growing,
                    snake_mode >>
    /\ UNCHANGED irqVars

\* ICLED_Show() of an effect.
Effect_Show ==
    /\ MainCanRun
    /\ app_pc \in { "night_show", "glow_show", "star_show", "snake_show" }
    /\ ShowCall(led_data, "Show")
    /\ app_pc' = CASE app_pc = "night_show" -> "night_tail"
                   [] app_pc = "glow_show" -> "glow_tail"
                   [] app_pc = "star_show" -> "star_tail"
                   [] app_pc = "snake_show" -> "snake_tail"
    /\ UNCHANGED << led_data, noop_led >>
    /\ UNCHANGED << sel, frames, fx_brightness, px_idx, night_col, night_dir,
                    glow_col, glow_dir, star_init, stars, star_i,
                    snake_tick, snake_head, snake_len, snake_growing, snake_mode >>
    /\ UNCHANGED irqVars

\* for (uint8_t c = 0; c < 15; c++) ICLED_SetPixel(c * 7 + 0, 0, 0, 0);
TopRowClear == [k \in 1..15 |-> << U16((k - 1) * 7 + 0), 0, 0, 0 >>]

\* ICLED_SetPixel(index, r, g, b) under a condition.
CallIf(cond, index, r, g, b) ==
    IF cond THEN << << U16(index), U8(r), U8(g), U8(b) >> >> ELSE << >>

\* The ICLED_SetPixel calls of one ICLED_NightRideDemo(brightness, delay).
NightRideCalls(col, brightness) ==
    TopRowClear
    \o CallIf(TRUE, col * 7 + 0, (brightness * 255) \div 100, 0, 0)
    \o CallIf(col > 0, (col - 1) * 7 + 0, (brightness * 100) \div 100, 0, 0)
    \o CallIf(col > 1, (col - 2) * 7 + 0, (brightness * 40) \div 100, 0, 0)
    \o CallIf(col < 14, (col + 1) * 7 + 0, (brightness * 100) \div 100, 0, 0)
    \o CallIf(col < 13, (col + 2) * 7 + 0, (brightness * 40) \div 100, 0, 0)

\* The ICLED_SetPixel calls of one ICLED_KnightRiderColorFade(brightness, delay).
ColorFadeCalls(col, brightness) ==
    TopRowClear
    \o CallIf(col > 2, (col - 3) * 7 + 0, (brightness * 64) \div 255, 0, 0)
    \o CallIf(col < 12, (col + 3) * 7 + 0, (brightness * 64) \div 255, 0, 0)
    \o CallIf(col > 1, (col - 2) * 7 + 0, (brightness * 150) \div 255,
              (brightness * 50) \div 255, 0)
    \o CallIf(col < 13, (col + 2) * 7 + 0, (brightness * 150) \div 255,
              (brightness * 50) \div 255, 0)
    \o CallIf(col > 0, (col - 1) * 7 + 0, (brightness * 230) \div 255,
              (brightness * 150) \div 255, 0)
    \o CallIf(col < 14, (col + 1) * 7 + 0, (brightness * 230) \div 255,
              (brightness * 150) \div 255, 0)
    \o CallIf(TRUE, col * 7 + 0, (brightness * 200) \div 255, brightness, 0)

\* Mutant of KnightStep: the sweep turns one column past the left end.
KnightStep_LateTurn(col, dir) ==
    IF col + dir >= 14 THEN << 14, -1 >>
    ELSE IF col + dir < 0 THEN << 0, 1 >>
    ELSE << col + dir, dir >>

\* col += direction; if (col >= 14) { col = 14; direction = -1; }
\* else if (col <= 0) { col = 0; direction = 1; }
KnightStep(col, dir) ==
    IF col + dir >= 14 THEN << 14, -1 >>
    ELSE IF col + dir <= 0 THEN << 0, 1 >>
    ELSE << col + dir, dir >>

\* ICLED_NightRideDemo, up to the call of ICLED_Show.
NightRide_Pixels ==
    /\ MainCanRun
    /\ app_pc = "night"
    /\ PixelCalls(NightRideCalls(night_col, fx_brightness))
    /\ app_pc' = "night_show"
    /\ UNCHANGED << sel, frames, fx_brightness, night_col, night_dir,
                    glow_col, glow_dir, star_init, stars, star_i,
                    snake_tick, snake_head, snake_len, snake_growing, snake_mode >>
    /\ UNCHANGED irqVars

\* ICLED_NightRideDemo after ICLED_Show: HAL_Delay(delay) and the move.
NightRide_Move ==
    /\ MainCanRun
    /\ app_pc = "night_tail"
    /\ night_col' = KnightStep(night_col, night_dir)[1]
    /\ night_dir' = KnightStep(night_col, night_dir)[2]
    /\ app_pc' = "loop"
    /\ UNCHANGED << sel, frames, fx_brightness, px_idx, glow_col, glow_dir,
                    star_init, stars, star_i,
                    snake_tick, snake_head, snake_len, snake_growing, snake_mode >>
    /\ UNCHANGED drvVars
    /\ UNCHANGED irqVars

\* ICLED_KnightRiderColorFade, up to the call of ICLED_Show.
ColorFade_Pixels ==
    /\ MainCanRun
    /\ app_pc = "glow"
    /\ PixelCalls(ColorFadeCalls(glow_col, fx_brightness))
    /\ app_pc' = "glow_show"
    /\ UNCHANGED << sel, frames, fx_brightness, night_col, night_dir,
                    glow_col, glow_dir, star_init, stars, star_i,
                    snake_tick, snake_head, snake_len, snake_growing, snake_mode >>
    /\ UNCHANGED irqVars

\* ICLED_KnightRiderColorFade after ICLED_Show: HAL_Delay(delay) and the move.
ColorFade_Move ==
    /\ MainCanRun
    /\ app_pc = "glow_tail"
    /\ glow_col' = KnightStep(glow_col, glow_dir)[1]
    /\ glow_dir' = KnightStep(glow_col, glow_dir)[2]
    /\ app_pc' = "loop"
    /\ UNCHANGED << sel, frames, fx_brightness, px_idx, night_col, night_dir,
                    star_init, stars, star_i,
                    snake_tick, snake_head, snake_len, snake_growing, snake_mode >>
    /\ UNCHANGED drvVars
    /\ UNCHANGED irqVars

\* for (i = 0; i < ICLED_LED_COUNT; ++i) ICLED_SetPixel(i, 0, brightness / 2, brightness);
BackgroundCalls(brightness) ==
    [k \in 1..ICLED_LED_COUNT |-> << U16(k - 1), 0, U8(brightness \div 2), U8(brightness) >>]

\* ICLED_StarfieldEffect: if (!init) { paint the background ... }
Starfield_Background ==
    /\ MainCanRun
    /\ app_pc = "star"
    /\ IF star_init = 0
       THEN /\ PixelCalls(BackgroundCalls(fx_brightness))
            /\ app_pc' = "star_bgshow"
            /\ UNCHANGED star_i
       ELSE /\ app_pc' = "star_spawn"
            /\ star_i' = 0
            /\ UNCHANGED drvVars
            /\ UNCHANGED px_idx
    /\ UNCHANGED << sel, frames, fx_brightness, night_col, night_dir,
                    glow_col, glow_dir, star_init, stars,
                    snake_tick, snake_head, snake_len, snake_growing, snake_mode >>
    /\ UNCHANGED irqVars

\* ... ICLED_Show(); init = 1; }
Starfield_FirstShow ==
    /\ MainCanRun
    /\ app_pc = "star_bgshow"
    /\ ShowCall(led_data, "Show")
    /\ star_init' = 1
    /\ star_i' = 0
    /\ app_pc' = "star_spawn"
    /\ UNCHANGED << led_data, noop_led >>
    /\ UNCHANGED << sel, frames, fx_brightness, px_idx, night_col, night_dir,
                    glow_col, glow_dir, stars,
                    snake_tick, snake_head, snake_len, snake_growing, snake_mode >>
    /\ UNCHANGED irqVars

\* for (i = 0; i < MAX_STARS; ++i)
\*     if (stars[i].age == 0 && (rand() % 100) < 15) { index, age, color }
Starfield_SpawnLoop ==
    /\ MainCanRun
    /\ app_pc = "star_spawn"
    /\ star_i < MAX_STARS
    /\ IF stars[star_i].age = 0
       THEN \E r1 \in RandValues :
              IF r1 % 100 < 15
              THEN \E r2 \in RandValues, r3 \in RandValues, r4 \in RandValues :
                     stars' = [stars EXCEPT ![star_i] =
                                 [index |-> U16(r2 % ICLED_LED_COUNT),
                                  age |-> U8(4 + (r3 % 5)),
                                  color |-> U8(r4 % 2)]]
              ELSE UNCHANGED stars
       ELSE UNCHANGED stars
    /\ star_i' = star_i + 1
    /\ UNCHANGED << app_pc, sel, frames, fx_brightness, px_idx, night_col, night_dir,
                    glow_col, glow_dir, star_init,
                    snake_tick, snake_head, snake_len, snake_growing, snake_mode >>
    /\ UNCHANGED drvVars
    /\ UNCHANGED irqVars

\* The body of the draw loop for one star: its ICLED_SetPixel calls.
StarCalls(star, brightness) ==
    IF star.age > 0
    THEN CallIf(star.color = 0, star.index, brightness, brightness, brightness)
         \o CallIf(star.color # 0, star.index, brightness, brightness, 0)
         \o CallIf(U8(star.age - 1) = 0, star.index, 0, brightness \div 2, brightness)
    ELSE << >>

\* The body of the draw loop for one star: stars[i].age--.
StarAged(star) == IF star.age > 0 THEN [star EXCEPT !.age = U8(star.age - 1)] ELSE star

\* The ICLED_SetPixel calls of the draw loop from star k on.
RECURSIVE DrawCalls(_, _, _)
DrawCalls(st, k, brightness) ==
    IF k < MAX_STARS
    THEN StarCalls(st[k], brightness) \o DrawCalls(st, k + 1, brightness)
    ELSE << >>

\* for (i = 0; i < MAX_STARS; ++i) if (stars[i].age > 0) { draw, age-- ... }
Starfield_Draw ==
    /\ MainCanRun
    /\ app_pc = "star_spawn"
    /\ ~(star_i < MAX_STARS)
    /\ PixelCalls(DrawCalls(stars, 0, fx_brightness))
    /\ stars' = [k \in DOMAIN stars |-> StarAged(stars[k])]
    /\ app_pc' = "star_show"
    /\ UNCHANGED << sel, frames, fx_brightness, night_col, night_dir,
                    glow_col, glow_dir, star_init, star_i,
                    snake_tick, snake_head, snake_len, snake_growing, snake_mode >>
    /\ UNCHANGED irqVars

\* ICLED_StarfieldEffect after the last ICLED_Show: HAL_Delay(delay).
Starfield_Delay ==
    /\ MainCanRun
    /\ app_pc = "star_tail"
    /\ app_pc' = "loop"
    /\ UNCHANGED << sel, frames, fx_brightness, px_idx, night_col, night_dir,
                    glow_col, glow_dir, star_init, stars, star_i,
                    snake_tick, snake_head, snake_len, snake_growing, snake_mode >>
    /\ UNCHANGED drvVars
    /\ UNCHANGED irqVars

\* for (i = 0; i < total; i++) ICLED_SetPixel(i, 0, 0, 0);
SnakeClear == [k \in 1..SnakeTotal |-> << U16(k - 1), 0, 0, 0 >>]

\* The right-hand sides of the switch (mode), in int arithmetic; index keeps
\* its initial 0 when no case matches.
SnakeCell(mode, step) ==
    CASE mode = DIR_HORIZONTAL -> ((step % SnakeCols) * SnakeRows) + (step \div SnakeCols)
      [] mode = DIR_VERTICAL -> (step \div SnakeRows) * SnakeRows + (step % SnakeRows)
      [] mode = DIR_DIAGONAL_RD -> (step % SnakeCols) * SnakeRows + (step % SnakeRows)
      [] mode = DIR_DIAGONAL_LU ->
           (SnakeCols - 1 - (step % SnakeCols)) * SnakeRows
           + (SnakeRows - 1 - (step % SnakeRows))
      [] OTHER -> 0

\* uint8_t index = 0; switch (mode) { ... }: the value stored in index.
SnakeIndex(mode, step) == U8(SnakeCell(mode, step))

\* brightness - (s * (brightness / snakeLength)), in int arithmetic.
SnakeFade(brightness, s, len) == brightness - (s * (brightness \div len))

\* uint8_t level = brightness - (s * (brightness / snakeLength));
SnakeLevel(brightness, s, len) == U8(SnakeFade(brightness, s, len))

\* The ICLED_SetPixel calls of the body loop from segment s on:
\* int16_t step = headIndex - s; if (step < 0 || step >= total) continue;
RECURSIVE SnakeBodyCalls(_, _, _, _, _)
SnakeBodyCalls(s, head, len, mode, brightness) ==
    IF s < len
    THEN CallIf(~(I16(head - s) < 0 \/ I16(head - s) >= SnakeTotal),
                SnakeIndex(mode, I16(head - s)), 0, SnakeLevel(brightness, s, len), 0)
         \o SnakeBodyCalls(U8(s + 1), head, len, mode, brightness)
    ELSE << >>

\* ICLED_SnakePattern, up to the call of ICLED_Show.
Snake_Pixels ==
    /\ MainCanRun
    /\ app_pc = "snake"
    /\ PixelCalls(SnakeClear
                  \o SnakeBodyCalls(0, snake_head, snake_len, snake_mode, fx_brightness))
    /\ app_pc' = "snake_show"
    /\ UNCHANGED << sel, frames, fx_brightness, night_col, night_dir,
                    glow_col, glow_dir, star_init, stars, star_i,
                    snake_tick, snake_head, snake_len, snake_growing, snake_mode >>
    /\ UNCHANGED irqVars

\* tick++; headIndex++; if (tick % 160 == 0) { headIndex = 0; mode = ... }
SnakeTurn(tick, head, mode) ==
    IF U16(tick + 1) % 160 = 0
    THEN << 0, (mode + 1) % DIR_MODE_COUNT >>
    ELSE << U16(head + 1), mode >>

\* The resize with the growth stopped one step late (snakeLength > 16).
SnakeResize_StopsLate(tick, len, growing) ==
    IF U16(tick + 1) % 25 = 0
    THEN IF growing # 0
         THEN << U8(len + 1), IF U8(len + 1) > 16 THEN 0 ELSE growing >>
         ELSE IF len > 4 THEN << U8(len - 1), growing >> ELSE << len, 1 >>
    ELSE << len, growing >>

\* if (tick % 25 == 0) { grow up to 16, then shrink down to 4, then grow }
SnakeResize(tick, len, growing) ==
    IF U16(tick + 1) % 25 = 0
    THEN IF growing # 0
         THEN << U8(len + 1), IF U8(len + 1) > 15 THEN 0 ELSE growing >>
         ELSE IF len > 4 THEN << U8(len - 1), growing >> ELSE << len, 1 >>
    ELSE << len, growing >>

\* ICLED_SnakePattern after ICLED_Show: HAL_Delay(delay) and the update of
\* tick, headIndex, mode, snakeLength and growing.
Snake_Advance ==
    /\ MainCanRun
    /\ app_pc = "snake_tail"
    /\ snake_tick' = U16(snake_tick + 1)
    /\ snake_mode' = SnakeTurn(snake_tick, snake_head, snake_mode)[2]
    /\ snake_len' = SnakeResize(snake_tick, snake_len, snake_growing)[1]
    /\ snake_growing' = SnakeResize(snake_tick, snake_len, snake_growing)[2]
    /\ snake_head' =
          IF SnakeTurn(snake_tick, snake_head, snake_mode)[1]
                > SnakeTotal + SnakeResize(snake_tick, snake_len, snake_growing)[1]
          THEN 0
          ELSE SnakeTurn(snake_tick, snake_head, snake_mode)[1]
    /\ app_pc' = "loop"
    /\ UNCHANGED << sel, frames, fx_brightness, px_idx, night_col, night_dir,
                    glow_col, glow_dir, star_init, stars, star_i >>
    /\ UNCHANGED drvVars
    /\ UNCHANGED irqVars

\* The whole application: ICLED_Init at startup, then example_app_run in
\* the main loop, with the button interrupt arriving between any two steps
\* of the main context.
NextApp ==
    \/ MainCanRun /\ ICLED_Init
    \/ MainCanRun /\ Clear_Loop
    \/ MainCanRun /\ Show_LoopLed
    \/ MainCanRun /\ Show_LoopChannel
    \/ MainCanRun /\ Show_LoopBit
    \/ MainCanRun /\ Show_LoopReset
    \/ MainCanRun /\ Show_Stop
    \/ MainCanRun /\ Show_Start
    \/ MainCanRun /\ Init_Start
    \/ example_app_run
    \/ NightRide_Pixels
    \/ NightRide_Move
    \/ ColorFade_Pixels
    \/ ColorFade_Move
    \/ Starfield_Background
    \/ Starfield_FirstShow
    \/ Starfield_SpawnLoop
    \/ Starfield_Draw
    \/ Starfield_Delay
    \/ Snake_Pixels
    \/ Snake_Advance
    \/ Effect_Show
    \/ HAL_GPIO_EXTI_Callback
    \/ EXTI_WrapCheck
    \/ EXTI_Return

SpecApp == Init /\ [][NextApp]_vars

\* A caller invokes ICLED_NightRideDemo(brightness, delay).
Call_NightRideDemo ==
    /\ pc = "idle"
    /\ app_pc = "loop"
    /\ \E b \in KnightBrightness : fx_brightness' = b
    /\ app_pc' = "night"
    /\ px_idx' = {}
    /\ UNCHANGED << sel, frames, night_col, night_dir, glow_col, glow_dir,
                    star_init, stars, star_i,
                    snake_tick, snake_head, snake_len, snake_growing, snake_mode >>
    /\ UNCHANGED drvVars
    /\ UNCHANGED irqVars

\* A caller invokes ICLED_KnightRiderColorFade(brightness, delay).
Call_KnightRiderColorFade ==
    /\ pc = "idle"
    /\ app_pc = "loop"
    /\ \E b \in KnightBrightness : fx_brightness' = b
    /\ app_pc' = "glow"
    /\ px_idx' = {}
    /\ UNCHANGED << sel, frames, night_col, night_dir, glow_col, glow_dir,
                    star_init, stars, star_i,
                    snake_tick, snake_head, snake_len, snake_growing, snake_mode >>
    /\ UNCHANGED drvVars
    /\ UNCHANGED irqVars

\* The two Knight Rider effects under a caller that invokes them in any
\* order, any number of times, after ICLED_Init.
NextKnight ==
    \/ ICLED_Init
    \/ Clear_Loop
    \/ Show_LoopLed
    \/ Show_LoopChannel
    \/ Show_LoopBit
    \/ Show_LoopReset
    \/ Show_Stop
    \/ Show_Start
    \/ Init_Start
    \/ Call_NightRideDemo
    \/ Call_KnightRiderColorFade
    \/ NightRide_Pixels
    \/ NightRide_Move
    \/ ColorFade_Pixels
    \/ ColorFade_Move
    \/ Effect_Show

SpecKnight == Init /\ [][NextKnight]_vars

\* A caller invokes ICLED_SnakePattern(brightness, delay).
Call_SnakePattern ==
    /\ pc = "idle"
    /\ app_pc = "loop"
    /\ frames < MaxSnakeCalls
    /\ frames' = frames + 1
    /\ \E b \in SnakeBrightness : fx_brightness' = b
    /\ app_pc' = "snake"
    /\ px_idx' = {}
    /\ UNCHANGED << sel, night_col, night_dir, glow_col, glow_dir,
                    star_init, stars, star_i,
                    snake_tick, snake_head, snake_len, snake_growing, snake_mode >>
    /\ UNCHANGED drvVars
    /\ UNCHANGED irqVars

\* ICLED_SnakePattern under a caller that invokes it again and again after
\* ICLED_Init, as the main loop does while the snake effect is selected.
NextSnake ==
    \/ ICLED_Init
    \/ Clear_Loop
    \/ Show_LoopLed
    \/ Show_LoopChannel
    \/ Show_LoopBit
    \/ Show_LoopReset
    \/ Show_Stop
    \/ Show_Start
    \/ Init_Start
    \/ Call_SnakePattern
    \/ Snake_Pixels
    \/ Effect_Show
    \/ Snake_Advance

SpecSnake == Init /\ [][NextSnake]_vars

\* ================================================================ claims

\* Bit n of an 8-bit value, read off the remainder instead of by shifting.
BitOf(byte, n) == (byte % Pow2(n + 1)) >= Pow2(n)

\* The frame a pixel store stands for: slot p*24 + ch*8 + k carries bit 7-k
\* of channel ch of pixel p, and the RESET_SLOTS slots after the data are 0.
EncodingOf(store) ==
    [s \in 0..(ICLED_BUFFER_SIZE - 1) |->
        IF s < ICLED_TIMING_BITS
        THEN IF BitOf(store[s \div 24][(s % 24) \div 8], 7 - (s % 8))
             THEN ICLED_PWM_1 ELSE ICLED_PWM_0
        ELSE 0]

AllBlack == [p \in 0..(ICLED_LED_COUNT - 1) |-> [ch \in 0..2 |-> 0]]

EncodePcs == { "show_led", "show_channel", "show_bit", "show_reset" }

\* ICLED_Show has just returned (to the application or to ICLED_Init).
ShowReturned ==
    \/ pc = "idle" /\ op \in { "Show", "Clear" }
    \/ pc = "init_start"

\* The step taken is a call of ICLED_SetPixel by the application.
SetPixelStep == pc = "idle" /\ op' = "SetPixel" /\ args' # NoArgs

\* C1: a hardware transfer start is never issued while a transfer is
\* already running: wherever the driver is about to call
\* HAL_TIM_PWM_Start_DMA, the last HAL call it issued was not a start.
C1_NoStartWhileRunning ==
    pc \in { "show_start", "init_start" } => lastHal # "start"

\* C2 as stated: ICLED_Init issues no stop before the very first start, and
\* the start it issues itself is the first one.
C2_NoStopBeforeFirstStart ==
    op = "Init" =>
        /\ \A k \in 1..Len(halLog) :
              halLog[k] = "stop" => \E j \in 1..(k - 1) : halLog[j] = "start"
        /\ pc = "init_start" => \A k \in 1..Len(halLog) : halLog[k] # "start"

\* C2 as amended: ICLED_Init clears the pixel store and runs the encode and
\* show path exactly once; that one show issues a stop and then the first
\* start, and ICLED_Init then issues one more start: its HAL calls are stop,
\* start, start, so a stop is issued before the very first start.
C2_InitSequence ==
    op = "Init" =>
        /\ pc \in { "clear_loop" } \cup EncodePcs \cup { "show_stop" } => halLog = <<>>
        /\ pc = "show_start" => halLog = << "stop" >>
        /\ pc = "init_start" =>
              /\ halLog = << "stop", "start" >>
              /\ led_data = AllBlack
              /\ pwm_buffer = EncodingOf(AllBlack)
        /\ pc = "idle" =>
              /\ halLog = << "stop", "start", "start" >>
              /\ led_data = AllBlack
              /\ pwm_buffer = EncodingOf(AllBlack)

C2_Witness ==
    /\ op = "Init"
    /\ pc = "idle"
    /\ halLog = << "stop", "start", "start" >>
    /\ led_data = AllBlack

\* C3: in every ICLED_Show all LED_COUNT*24 + RESET_SLOTS slots are written
\* before any HAL call, then the transfer is stopped, then a transfer is
\* started over the full buffer (length BUFFER_SIZE); when show returns the
\* transfer is running on the buffer just encoded.
C3_ShowSequence ==
    /\ pc \in EncodePcs => halLog = <<>>
    /\ pc = "show_stop" => halLog = <<>> /\ pos = ICLED_TIMING_BITS + ICLED_RESET_SLOTS
    /\ pc = "show_start" =>
          /\ halLog = << "stop" >>
          /\ ~running
          /\ pos = ICLED_TIMING_BITS + ICLED_RESET_SLOTS
    /\ ShowReturned =>
          /\ halLog = << "stop", "start" >>
          /\ running
          /\ dma_len = ICLED_BUFFER_SIZE
          /\ frame = pwm_buffer
          /\ pos = ICLED_TIMING_BITS + ICLED_RESET_SLOTS

C3_Witness ==
    /\ pc = "idle"
    /\ op = "Show"
    /\ halLog = << "stop", "start" >>
    /\ running
    /\ dma_len = ICLED_BUFFER_SIZE
    /\ led_data[ICLED_LED_COUNT - 1] = StoreGRB(255, 0, 3)

\* C4: after ICLED_Show, slot i*24 + c*8 + k holds PWM_ONE if bit 7-k of
\* the stored byte of channel c of pixel i is set and PWM_ZERO otherwise.
C4_BitExactEncoding ==
    ShowReturned =>
        \A p \in 0..(ICLED_LED_COUNT - 1) : \A ch \in 0..2 : \A k \in 0..7 :
            pwm_buffer[p * 24 + ch * 8 + k] =
                IF BitOf(led_data[p][ch], 7 - k) THEN ICLED_PWM_1 ELSE ICLED_PWM_0

\* Pixel 0 is (R=0x01, G=0x80, B=0x56): the first G slot and the last R slot
\* carry a one, the slots next to them a zero.
C4_Witness ==
    /\ pc = "idle"
    /\ op = "Show"
    /\ led_data[0] = StoreGRB(1, 128, 86)
    /\ led_data[ICLED_LED_COUNT - 1] = StoreGRB(255, 0, 3)
    /\ pwm_buffer[0] = ICLED_PWM_1
    /\ pwm_buffer[1] = ICLED_PWM_0
    /\ pwm_buffer[14] = ICLED_PWM_0
    /\ pwm_buffer[15] = ICLED_PWM_1

\* C5: for an index below LED_COUNT, ICLED_SetPixel(i, r, g, b) stores
\* [G, R, B] = [g, r, b] in pixel i and leaves every other pixel unchanged.
C5_SetPixelStores ==
    [][ (SetPixelStep /\ args'[1] < ICLED_LED_COUNT) =>
            /\ led_data'[args'[1]][0] = args'[3]
            /\ led_data'[args'[1]][1] = args'[2]
            /\ led_data'[args'[1]][2] = args'[4]
            /\ DOMAIN led_data' = DOMAIN led_data
            /\ \A p \in DOMAIN led_data :
                  p # args'[1] => led_data'[p] = led_data[p] ]_vars

C5_Witness ==
    /\ pc = "idle"
    /\ op = "SetPixel"
    /\ args = << ICLED_LED_COUNT - 1, 255, 0, 3 >>
    /\ led_data[ICLED_LED_COUNT - 1][0] = 0
    /\ led_data[ICLED_LED_COUNT - 1][1] = 255
    /\ led_data[ICLED_LED_COUNT - 1][2] = 3
    /\ led_data[0][0] = 128

\* C6: for an index >= LED_COUNT, ICLED_SetPixel changes neither the pixel
\* store nor the timing buffer nor the transfer, and the ICLED_Show that
\* follows encodes every pixel as the store held it before the call.
C6_OutOfRangeNoEffect ==
    /\ [][ (SetPixelStep /\ args'[1] >= ICLED_LED_COUNT) =>
              UNCHANGED << led_data, pwm_buffer, running, dma_len, lastHal, frame >> ]_vars
    /\ []( (noop_led # NoSnapshot /\ pc = "idle" /\ op = "Show") =>
              \A s \in 0..(ICLED_TIMING_BITS - 1) :
                  pwm_buffer[s] = EncodingOf(noop_led)[s] )

C6_Witness ==
    /\ pc = "idle"
    /\ op = "Show"
    /\ noop_led # NoSnapshot
    /\ noop_led[0] = StoreGRB(1, 128, 86)
    /\ pwm_buffer[0] = ICLED_PWM_1

\* C7: every slot value the running transfer emits is the value that slot
\* had in the frame the transfer was started on: the hardware never emits
\* a slot of the encoding in progress.
C7_EmitsStartedFrame ==
    emit # NoEmit => emit[2] = frame[emit[1]]

\* C8 as stated: in every reachable state, from startup on, each data slot
\* holds PWM_ZERO or PWM_ONE and each reset slot holds 0.
C8_SlotValuesFromStartup ==
    /\ \A s \in 0..(ICLED_TIMING_BITS - 1) : pwm_buffer[s] \in { ICLED_PWM_0, ICLED_PWM_1 }
    /\ \A s \in ICLED_TIMING_BITS..(ICLED_BUFFER_SIZE - 1) : pwm_buffer[s] = 0

\* The data loop of the first ICLED_Show (the one inside ICLED_Init) is over.
FirstEncodeDone ==
    /\ op # "none"
    /\ ~(op = "Init" /\ pc \in { "clear_loop", "show_led", "show_channel", "show_bit" })

\* C8 as amended: each reset slot holds 0 in every reachable state; each
\* data slot holds PWM_ZERO or PWM_ONE in every state from the end of the
\* first encode (inside ICLED_Init) on, states in the middle of a later
\* encode included; before that a data slot not yet written holds 0.
C8_SlotValues ==
    /\ \A s \in ICLED_TIMING_BITS..(ICLED_BUFFER_SIZE - 1) : pwm_buffer[s] = 0
    /\ \A s \in 0..(ICLED_TIMING_BITS - 1) :
          \/ pwm_buffer[s] \in { ICLED_PWM_0, ICLED_PWM_1 }
          \/ ~FirstEncodeDone /\ pwm_buffer[s] = 0 /\ (op = "Init" => s >= pos)

\* In the middle of the encode of a show that follows the first one.
C8_Witness ==
    /\ op = "Show"
    /\ pc = "show_bit"
    /\ pos = 12
    /\ shown[0] = StoreGRB(1, 128, 86)
    /\ pwm_buffer[0] = ICLED_PWM_1
    /\ pwm_buffer[ICLED_TIMING_BITS - 1] = ICLED_PWM_1

\* C9: only the encode step of ICLED_Show changes the timing buffer;
\* ICLED_SetPixel leaves the buffer and the transfer as they are; between
\* driver calls the buffer is the encoding of the pixel store as the most
\* recent show found it, so a pixel written since is not in it.
C9_BufferFollowsShow ==
    /\ [][ pwm_buffer' # pwm_buffer => pc \in { "show_bit", "show_reset" } ]_vars
    /\ [][ SetPixelStep => UNCHANGED << pwm_buffer, running, dma_len, lastHal, frame >> ]_vars
    /\ [](pc = "idle" => pwm_buffer = EncodingOf(shown))
    /\ [](ShowReturned => shown = led_data)

\* The last pixel was written after the last show: the store has it, the buffer
\* still has the value the show encoded.
C9_Witness ==
    /\ pc = "idle"
    /\ op = "SetPixel"
    /\ led_data[ICLED_LED_COUNT - 1] = StoreGRB(255, 0, 3)
    /\ shown[ICLED_LED_COUNT - 1] = StoreGRB(0, 0, 0)
    /\ shown[0] = StoreGRB(1, 128, 86)
    /\ pwm_buffer[ICLED_TIMING_BITS - 1] = ICLED_PWM_0
    /\ pwm_buffer[0] = ICLED_PWM_1

\* A step inside the encode loops either writes nothing and keeps the
\* write position, or writes exactly the slot at the write position, which
\* lies inside the buffer, and advances the position by one.
EncodeStepOk ==
    pc \in EncodePcs =>
        ( (pos' = pos /\ pwm_buffer' = pwm_buffer)
          \/ ( pos' = pos + 1
               /\ pos < ICLED_LED_COUNT * 24 + ICLED_RESET_SLOTS
               /\ pos \in DOMAIN pwm_buffer
               /\ \A s \in DOMAIN pwm_buffer : s # pos => pwm_buffer'[s] = pwm_buffer[s] ) )

\* Entering ICLED_Show sets the write position to 0.
ShowEntryOk ==
    (pc' = "show_led" /\ pc \in { "idle", "clear_loop" }) => pos' = 0

\* C10: in every ICLED_Show the write position starts at 0, grows by one
\* with each slot written, indexes only slots below BUFFER_SIZE, and is
\* BUFFER_SIZE = LED_COUNT*24 + RESET_SLOTS when the reset slots are in.
C10_WritePosition ==
    /\ [][ShowEntryOk]_vars
    /\ [][EncodeStepOk]_vars
    /\ [](pc = "show_reset" => pos = ICLED_LED_COUNT * 24 + rst_i)
    /\ [](pc \in { "show_stop", "show_start" } =>
              pos = ICLED_LED_COUNT * 24 + ICLED_RESET_SLOTS)

C10_Witness ==
    /\ pc = "show_stop"
    /\ op = "Show"
    /\ pos = ICLED_BUFFER_SIZE
    /\ shown[0] = StoreGRB(1, 128, 86)
    /\ shown[ICLED_LED_COUNT - 1] = StoreGRB(255, 0, 3)

\* The receiver's reading of one slot: a long pulse is a one.
DecodedBit(slot) == IF slot = ICLED_PWM_1 THEN 1 ELSE 0

\* The value of the n slots from base on, most significant bit first.
RECURSIVE DecodeBits(_, _, _)
DecodeBits(buf, base, n) ==
    IF n = 0 THEN 0
    ELSE 2 * DecodeBits(buf, base, n - 1) + DecodedBit(buf[base + n - 1])

\* The bytes of the pixel store in LED-index order, three per pixel.
StoredBytes(store) ==
    [k \in 0..(3 * ICLED_LED_COUNT - 1) |-> store[k \div 3][k % 3]]

\* C11: after ICLED_Show, decoding the first LED_COUNT*24 slots of the
\* buffer (PWM_ONE as 1, PWM_ZERO as 0, eight slots per byte, most
\* significant bit first) gives back the stored bytes G, R, B of pixel 0,
\* then of pixel 1, and so on in LED-index order.
C11_DecodeRoundTrip ==
    ShowReturned =>
        /\ \A s \in 0..(ICLED_LED_COUNT * 24 - 1) :
              pwm_buffer[s] \in { ICLED_PWM_0, ICLED_PWM_1 }
        /\ [k \in 0..(3 * ICLED_LED_COUNT - 1) |-> DecodeBits(pwm_buffer, 8 * k, 8)]
              = StoredBytes(led_data)

\* Pixel 0 is (R=1, G=128, B=86) and the last pixel (R=255, G=0, B=3): the
\* first three bytes decode to 128, 1, 86 and the last three to 0, 255, 3.
C11_Witness ==
    /\ pc = "idle"
    /\ op = "Show"
    /\ led_data[0] = StoreGRB(1, 128, 86)
    /\ led_data[ICLED_LED_COUNT - 1] = StoreGRB(255, 0, 3)
    /\ DecodeBits(pwm_buffer, 0, 8) = 128
    /\ DecodeBits(pwm_buffer, 8, 8) = 1
    /\ DecodeBits(pwm_buffer, 16, 8) = 86
    /\ DecodeBits(pwm_buffer, ICLED_LED_COUNT * 24 - 16, 8) = 255
    /\ DecodeBits(pwm_buffer, ICLED_LED_COUNT * 24 - 8, 8) = 3

\* The call in progress, or the one that just returned, is past its encode.
EncodeOver == pc \in { "show_stop", "show_start", "idle" }

\* An ICLED_Show is entered right after a call that ended with a show.
ShowAgainStep == pc = "idle" /\ pc' = "show_led" /\ again'

\* C12: when ICLED_Show is called again with no ICLED_SetPixel and no
\* ICLED_Clear since the previous show, the pixel store is what the
\* previous show found and stays so, and the buffer after the second
\* encode is slot for slot the buffer the previous show left and started
\* the transfer on.
C12_ShowIdempotent ==
    /\ [][ ShowAgainStep => (led_data = shown /\ led_data' = led_data
                              /\ pwm_buffer = frame) ]_vars
    /\ [](again => led_data = shown)
    /\ []((again /\ EncodeOver) => pwm_buffer = frame)

\* The second show of a coloured store is about to restart the transfer.
C12_Witness ==
    /\ again
    /\ op = "Show"
    /\ pc = "show_start"
    /\ pwm_buffer = frame
    /\ led_data[0] = StoreGRB(1, 128, 86)
    /\ pwm_buffer[0] = ICLED_PWM_1
    /\ pwm_buffer[ICLED_TIMING_BITS - 1] = ICLED_PWM_0

\* C13: ICLED_Clear sets every pixel to (0,0,0) and then runs one show:
\* from the end of its pixel loop on every pixel reads (0,0,0); on return
\* every one of the LED_COUNT*24 data slots holds PWM_ZERO and the
\* transfer has been stopped and started once, in this order.
C13_ClearScenario ==
    op = "Clear" =>
        /\ pc # "clear_loop" => led_data = AllBlack
        /\ pc = "clear_loop" => \A p \in 0..(clr_i - 1) : led_data[p] = StoreGRB(0, 0, 0)
        /\ pc \in { "clear_loop" } \cup EncodePcs \cup { "show_stop" } => halLog = <<>>
        /\ pc = "idle" =>
              /\ \A s \in 0..(ICLED_LED_COUNT * 24 - 1) : pwm_buffer[s] = ICLED_PWM_0
              /\ halLog = << "stop", "start" >>
              /\ running

\* ICLED_Clear has blanked a coloured store and encoded it; the transfer
\* still runs on the coloured frame of the show before.
C13_Witness ==
    /\ op = "Clear"
    /\ pc = "show_stop"
    /\ led_data = AllBlack
    /\ frame[0] = ICLED_PWM_1
    /\ frame[ICLED_TIMING_BITS - 1] = ICLED_PWM_1
    /\ pwm_buffer[0] = ICLED_PWM_0
    /\ pwm_buffer[ICLED_TIMING_BITS - 1] = ICLED_PWM_0

\* C14: after any ICLED_Show the last RESET_SLOTS entries of the buffer
\* (slots LED_COUNT*24 .. BUFFER_SIZE-1) are all 0.
C14_ResetSlotsZero ==
    (ShowReturned \/ pc \in { "show_stop", "show_start" }) =>
        \A s \in (ICLED_LED_COUNT * 24)..(ICLED_BUFFER_SIZE - 1) : pwm_buffer[s] = 0

\* A show whose last data slot is a one has returned with all reset slots
\* written.
C14_Witness ==
    /\ pc = "idle"
    /\ op = "Show"
    /\ rst_i = ICLED_RESET_SLOTS
    /\ pwm_buffer[ICLED_LED_COUNT * 24 - 1] = ICLED_PWM_1
    /\ pwm_buffer[ICLED_LED_COUNT * 24] = 0
    /\ pwm_buffer[ICLED_BUFFER_SIZE - 1] = 0

\* The main context is inside ICLED_Show.
InShow == pc \in EncodePcs \cup { "show_stop", "show_start" }

\* C16: every ICLED_Show terminates and never waits: at each of its
\* positions a step is enabled whatever the transfer does; the bit counter
\* runs from 7 down to 0 and the bit loop is left at -1; the data loops
\* write exactly LED_COUNT*3*8 slots, then the reset loop writes exactly
\* RESET_SLOTS slots, then stop and start are issued once each.
C16_ShowTerminates ==
    /\ [](InShow => ENABLED DriverStep)
    /\ [](pc = "show_led" => (i <= ICLED_LED_COUNT /\ pos = i * 3 * 8))
    /\ [](pc = "show_channel" => (i < ICLED_LED_COUNT /\ c <= 3 /\ pos = (i * 3 + c) * 8))
    /\ [](pc = "show_bit" =>
            (bit \in -1..7 /\ i < ICLED_LED_COUNT /\ c < 3
             /\ pos = (i * 3 + c) * 8 + (7 - bit)))
    /\ [](pc = "show_reset" =>
            (i = ICLED_LED_COUNT /\ rst_i <= ICLED_RESET_SLOTS
             /\ pos = ICLED_LED_COUNT * 3 * 8 + rst_i))
    /\ [](pc = "show_stop" =>
            (rst_i = ICLED_RESET_SLOTS /\ halLog = <<>>
             /\ pos = ICLED_LED_COUNT * 3 * 8 + ICLED_RESET_SLOTS))
    /\ [](pc = "show_start" => halLog = << "stop" >>)
    /\ [](ShowReturned => halLog = << "stop", "start" >>)
    /\ (InShow ~> ShowReturned)

\* The bit loop of the last byte of a frame is left with the counter at -1
\* and all data slots written.
C16_Witness ==
    /\ op = "Show"
    /\ pc = "show_bit"
    /\ bit = -1
    /\ i = ICLED_LED_COUNT - 1
    /\ c = 2
    /\ pos = ICLED_LED_COUNT * 3 * 8
    /\ val = 3

\* The step taken is an invocation of the handler with a pin other than S2.
OtherPinStep == isr_pc = "return" \/ isr_pc' = "return"

\* The step taken is the first half of an invocation with the S2 pin.
S2PinStep == isr_pc = "none" /\ isr_pc' = "check"

\* C15: each invocation of HAL_GPIO_EXTI_Callback with the S2 pin advances
\* effectMode by one and wraps from EFFECT_COUNT-1 to 0, so that after n
\* such invocations from startup effectMode is n mod EFFECT_COUNT; an
\* invocation with another pin leaves effectMode as it is.
C15_ButtonCycles ==
    /\ [](isr_pc = "none" => effectMode = presses % EFFECT_COUNT)
    /\ [](isr_pc = "check" => effectMode = ((presses - 1) % EFFECT_COUNT) + 1)
    /\ [][ S2PinStep => (exti_pin' = S2_Pin /\ presses' = presses + 1) ]_vars
    /\ [][ OtherPinStep => (exti_pin' # S2_Pin /\ UNCHANGED << effectMode, presses >>) ]_vars

\* Five presses have wrapped the selector round to EFFECT_GLOW, and an
\* invocation for another pin is about to return with the selector as it was.
C15_Witness ==
    /\ isr_pc = "return"
    /\ presses = 5
    /\ effectMode = EFFECT_GLOW
    /\ exti_pin # S2_Pin
    /\ exti_pin # NoPin

\* The step taken belongs to the interrupt handler.
HandlerStep == isr_pc # "none" \/ isr_pc' # "none"

\* C18: a step of the button interrupt handler leaves the pixel store, the
\* timing buffer and the transfer state unchanged; so, with interrupts
\* arriving at any point inside ICLED_Show, the buffer handed to the
\* hardware start is the encoding of the pixel store as it was when that
\* show was called.
C18_HandlerLeavesDriverAlone ==
    /\ [][ HandlerStep =>
              UNCHANGED << led_data, pwm_buffer, running, dma_len, lastHal, halLog,
                           frame, shown, pc, locals >> ]_vars
    /\ [](pc = "show_start" => pwm_buffer = EncodingOf(shown))
    /\ [](ShowReturned => (frame = EncodingOf(shown) /\ shown = led_data))

\* The handler is active between the stop and the start of a show of a
\* coloured store, with the selector at its transient value.
C18_Witness ==
    /\ op = "Show"
    /\ pc = "show_start"
    /\ isr_pc = "check"
    /\ effectMode = EFFECT_COUNT
    /\ shown[0] = StoreGRB(1, 128, 86)
    /\ shown[ICLED_LED_COUNT - 1] = StoreGRB(255, 0, 3)
    /\ pwm_buffer = EncodingOf(shown)

\* The step taken is the switch (effectMode) of example_app_run.
SwitchStep == frames' = frames + 1

\* C17: with button interrupts arriving between any two steps of the main
\* loop, every value example_app_run reads from effectMode is one of
\* 0..EFFECT_COUNT-1: the value EFFECT_COUNT the selector holds inside the
\* handler is never read, and the default branch (ICLED_Clear, the only
\* call of ICLED_Clear in the application) is never taken.
C17_SelectorReadInRange ==
    /\ [][ SwitchStep => (sel' = effectMode /\ effectMode \in 0..(EFFECT_COUNT - 1)) ]_vars
    /\ [](sel \in { NoSel } \cup 0..(EFFECT_COUNT - 1))
    /\ [](op # "Clear")
    /\ [](effectMode = EFFECT_COUNT => isr_pc = "check")

\* The main loop is about to read the selector for the third time while
\* the handler holds it at EFFECT_COUNT.
C17_Witness ==
    /\ isr_pc = "check"
    /\ effectMode = EFFECT_COUNT
    /\ app_pc = "loop"
    /\ frames = 2
    /\ sel = EFFECT_SNAKE

\* The pixel is the position of a live star.
LiveStarAt(p) == \E k \in DOMAIN stars : stars[k].age > 0 /\ stars[k].index = p

\* C19: whenever ICLED_StarfieldEffect has shown a frame, every pixel that
\* is not the position of a live star holds the cyan background
\* (r = 0, g = brightness/2, b = brightness), whatever effects ran before.
C19_StarfieldBackground ==
    app_pc = "star_tail" =>
        \A p \in 0..(ICLED_LED_COUNT - 1) :
            ~LiveStarAt(p) => led_data[p] = StoreGRB(0, fx_brightness \div 2, fx_brightness)

\* ICLED_LED_COUNT of the board (icled.h), the size the Knight Rider effects
\* are written for: a 7x15 matrix whose top row is col * 7.
BOARD_LED_COUNT == 105

TopRow == { col * 7 : col \in 0..14 }

\* The step taken is the move at the end of ICLED_NightRideDemo.
NightMoveStep == app_pc = "night_tail" /\ app_pc' = "loop"

\* The step taken is the move at the end of ICLED_KnightRiderColorFade.
GlowMoveStep == app_pc = "glow_tail" /\ app_pc' = "loop"

\* C20: in ICLED_NightRideDemo and ICLED_KnightRiderColorFade the column
\* is always in 0..14 and the direction +1 or -1; each call moves the
\* column by exactly one, in the direction it had, and the direction is
\* reversed by a call exactly when that call reaches column 0 or 14; every
\* index passed to ICLED_SetPixel is a top-row index col*7 with col in
\* 0..14 and so below the LED count of the board.
C20_KnightRiderSweep ==
    /\ [](night_col \in 0..14 /\ night_dir \in { 1, -1 })
    /\ [](glow_col \in 0..14 /\ glow_dir \in { 1, -1 })
    /\ [][ NightMoveStep =>
              /\ night_col' = night_col + night_dir
              /\ (night_dir' = -night_dir) <=> (night_col' \in { 0, 14 }) ]_vars
    /\ [][ GlowMoveStep =>
              /\ glow_col' = glow_col + glow_dir
              /\ (glow_dir' = -glow_dir) <=> (glow_col' \in { 0, 14 }) ]_vars
    /\ [](app_pc \in { "night_show", "night_tail", "glow_show", "glow_tail" } =>
            /\ px_idx \subseteq TopRow
            /\ px_idx # {}
            /\ \A x \in px_idx : x < BOARD_LED_COUNT)
    /\ [](app_pc \in { "night_show", "night_tail" } => night_col * 7 \in px_idx)
    /\ [](app_pc \in { "glow_show", "glow_tail" } => glow_col * 7 \in px_idx)

\* The red sweep has just turned at the right end and passes index 98; the
\* colour-fade sweep has turned there before and is on its way back.
C20_Witness ==
    /\ app_pc = "night_show"
    /\ night_col = 14
    /\ night_dir = -1
    /\ glow_col = 13
    /\ glow_dir = -1
    /\ 98 \in px_idx

\* The segments of the snake the body loop draws in the current call:
\* those whose step = headIndex - s is not skipped by the continue.
SnakeDrawn ==
    { seg \in 0..(snake_len - 1) :
        ~(I16(snake_head - seg) < 0 \/ I16(snake_head - seg) >= SnakeTotal) }

\* C21: in ICLED_SnakePattern, after any number of calls snakeLength is in
\* 4..16 (so brightness / snakeLength never divides by zero) and mode is in
\* 0..DIR_MODE_COUNT-1; every index passed to ICLED_SetPixel, by the clear
\* loop and by the body loop, is in 0..LED_COUNT-1 of the board, and the
\* index of every drawn segment fits the uint8_t index variable unchanged;
\* the level of every drawn segment is computed without going below 0.
C21_SnakeInRange ==
    /\ snake_len \in 4..16
    /\ snake_mode \in 0..(DIR_MODE_COUNT - 1)
    /\ snake_growing \in { 0, 1 }
    /\ app_pc \in { "snake_show", "snake_tail" } =>
         /\ px_idx \subseteq 0..(BOARD_LED_COUNT - 1)
         /\ \A seg \in SnakeDrawn :
              /\ SnakeCell(snake_mode, I16(snake_head - seg)) \in 0..(BOARD_LED_COUNT - 1)
              /\ SnakeIndex(snake_mode, I16(snake_head - seg))
                    = SnakeCell(snake_mode, I16(snake_head - seg))
              /\ SnakeIndex(snake_mode, I16(snake_head - seg)) \in px_idx
              /\ SnakeFade(fx_brightness, seg, snake_len) >= 0
              /\ SnakeLevel(fx_brightness, seg, snake_len)
                    = SnakeFade(fx_brightness, seg, snake_len)

\* The snake at full brightness has shrunk to its shortest in the last
\* direction mode; its four segments are drawn, the tail one last at index
\* 63 with level 255 - 3 * (255 / 4) = 66.
C21_Witness ==
    /\ app_pc = "snake_show"
    /\ fx_brightness = 255
    /\ snake_len = 4
    /\ snake_growing = 0
    /\ snake_mode = DIR_DIAGONAL_LU
    /\ snake_head = 23
    /\ SnakeDrawn = 0..3
    /\ args = << 63, 0, 66, 0 >>

\* The step taken is the update at the end of ICLED_SnakePattern.
SnakeAdvanceStep == app_pc = "snake_tail" /\ app_pc' = "loop"

\* C22: in ICLED_SnakePattern the direction mode advances by one (modulo
\* DIR_MODE_COUNT) in exactly the calls whose number is a multiple of 160,
\* and in no other call, for every number of calls, those after the 16-bit
\* tick counter has wrapped from 65535 to 0 included.
C22_ModeEvery160Calls ==
    [][ SnakeAdvanceStep =>
          snake_mode' = IF frames % 160 = 0
                        THEN (snake_mode + 1) % DIR_MODE_COUNT
                        ELSE snake_mode ]_vars

====
